---- MODULE Spec2Model ----
(***************************************************************************)
(* Model of src/task_5/agent.py: the scripted fleet policy (Agent, its     *)
(* role scheduler, the three role behaviours wrapped by the emergency      *)
(* return, and the geometry helpers).                                      *)
(*                                                                         *)
(* Python tuples are modelled as records (ships) or sequences (actions):   *)
(*   ship   (id, x, y, health, firing_cooldown, move_cooldown)             *)
(*   action [id, 0, direction, speed]  |  [id, 1, direction]  |  []        *)
(* Directions: 0 right (x+1), 1 down (y+1), 2 left (x-1), 3 up (y-1).      *)
(***************************************************************************)
EXTENDS Integers, Sequences, FiniteSets, TLC

VARIABLES
    \* ---- Agent instance state (Agent.__init__)
    side, home_planet, enemy_planet, ship_roles, turn_counter,
    last_known_enemy_positions, ship_bump_count, ship_directions,
    ship_patterns, explore_direction_counter,
    \* ---- record of the last get_action call
    calls, obs, rnd, roles_before, ag_scheduled, result,
    \* ---- harness for shoot_enemy_if_in_range
    sh_ship, sh_enemy, sh_choice,
    \* ---- harness for return_home walks
    rh_ship, rh_home, rh_move,
    \* ---- harness for repeated scheduler calls on one roster
    sc_ships, sc_called

agentVars == <<side, home_planet, enemy_planet, ship_roles, turn_counter,
               last_known_enemy_positions, ship_bump_count, ship_directions,
               ship_patterns, explore_direction_counter>>
callVars  == <<calls, obs, rnd, roles_before, ag_scheduled, result>>
shootVars == <<sh_ship, sh_enemy, sh_choice>>
homeVars  == <<rh_ship, rh_home, rh_move>>
schedVars == <<sc_ships, sc_called>>
vars      == <<agentVars, callVars, shootVars, homeVars, schedVars>>

(***************************************************************************)
(* Program constants                                                       *)
(***************************************************************************)
ROLE_EXPLORE == "explore"
ROLE_ATTACK  == "attack"
ROLE_DEFEND  == "defend"
Roles == {ROLE_EXPLORE, ROLE_ATTACK, ROLE_DEFEND}

\* Python None: a value no tuple of the model equals
None == <<"None">>

FireRange == 8          \* shoot_enemy_if_in_range: "<= 8"
MaxSpeed == 3           \* min(3, ...) and "speed = 3"
BoardLast == 99         \* last on-board coordinate ("ship_x >= 99", "< 100")
EmergencyRange == 100   \* with_emergency_return: "dx + dy <= 100"

Abs(n) == IF n < 0 THEN -n ELSE n
Min(a, b) == IF a < b THEN a ELSE b
Max(a, b) == IF a > b THEN a ELSE b

Ship(i, x, y, h, fc, mc) ==
    [id |-> i, x |-> x, y |-> y, health |-> h,
     firing_cooldown |-> fc, move_cooldown |-> mc]

Move(i, direction, speed) == <<i, 0, direction, speed>>
Fire(i, direction) == <<i, 1, direction>>

(***************************************************************************)
(* shoot_enemy_if_in_range(enemy, ship)                                    *)
(***************************************************************************)
shoot_enemy_if_in_range_short(enemy, ship) ==
    IF ship.y = enemy.y /\ enemy.x > ship.x /\ enemy.x - ship.x < FireRange
        THEN Fire(ship.id, 0)
    ELSE IF ship.y = enemy.y /\ enemy.x < ship.x /\ ship.x - enemy.x < FireRange
        THEN Fire(ship.id, 2)
    ELSE IF ship.x = enemy.x /\ enemy.y > ship.y /\ enemy.y - ship.y < FireRange
        THEN Fire(ship.id, 1)
    ELSE IF ship.x = enemy.x /\ enemy.y < ship.y /\ ship.y - enemy.y < FireRange
        THEN Fire(ship.id, 3)
    ELSE <<>>

shoot_enemy_if_in_range(enemy, ship) ==
    IF ship.y = enemy.y /\ enemy.x > ship.x /\ enemy.x - ship.x <= FireRange
        THEN Fire(ship.id, 0)
    ELSE IF ship.y = enemy.y /\ enemy.x < ship.x /\ ship.x - enemy.x <= FireRange
        THEN Fire(ship.id, 2)
    ELSE IF ship.x = enemy.x /\ enemy.y > ship.y /\ enemy.y - ship.y <= FireRange
        THEN Fire(ship.id, 1)
    ELSE IF ship.x = enemy.x /\ enemy.y < ship.y /\ ship.y - enemy.y <= FireRange
        THEN Fire(ship.id, 3)
    ELSE <<>>

(***************************************************************************)
(* return_home(ship, home_x, home_y)                                       *)
(***************************************************************************)
return_home_full_speed(ship, home_x, home_y) ==
    LET dx == ship.x - home_x
        dy == ship.y - home_y
    IN  IF Abs(dx) > Abs(dy)
        THEN IF dx > 0 THEN Move(ship.id, 2, MaxSpeed)
                       ELSE Move(ship.id, 0, MaxSpeed)
        ELSE IF dy > 0 THEN Move(ship.id, 3, MaxSpeed)
                       ELSE Move(ship.id, 1, MaxSpeed)

return_home(ship, home_x, home_y) ==
    LET dx == ship.x - home_x
        dy == ship.y - home_y
    IN  IF Abs(dx) > Abs(dy)
        THEN IF dx > 0 THEN Move(ship.id, 2, Min(MaxSpeed, Abs(dx)))
                       ELSE Move(ship.id, 0, Min(MaxSpeed, Abs(dx)))
        ELSE IF dy > 0 THEN Move(ship.id, 3, Min(MaxSpeed, Abs(dy)))
                       ELSE Move(ship.id, 1, Min(MaxSpeed, Abs(dy)))

(***************************************************************************)
(* Python dict helpers                                                     *)
(***************************************************************************)
EmptyDict == [k \in {} |-> None]
Put(d, k, v) == [x \in (DOMAIN d) \cup {k} |-> IF x = k THEN v ELSE d[x]]
Get(d, k, default) == IF k \in DOMAIN d THEN d[k] ELSE default
Restrict(d, keys) == [x \in (DOMAIN d) \cap keys |-> d[x]]

\* the element of a one-element set: The({F(v) : v \in {e}}) is F(e) with e
\* evaluated once
The(S) == CHOOSE v \in S : TRUE

RoleOrder == <<ROLE_EXPLORE, ROLE_ATTACK, ROLE_DEFEND>>

Ids(allied_ships) == {allied_ships[k].id : k \in 1..Len(allied_ships)}

(***************************************************************************)
(* Agent.scheduler, step 1: every ship of the roster gets a role (by       *)
(* id % 3 when it has none) and the roles of the roster are counted.       *)
(***************************************************************************)
InitialRole(ship_id) ==
    IF ship_id % 3 = 2 THEN ROLE_DEFEND
    ELSE IF ship_id % 3 = 0 THEN ROLE_EXPLORE
    ELSE ROLE_ATTACK

RECURSIVE AssignInitialRoles(_, _, _)
AssignInitialRoles(roles, allied_ships, k) ==
    IF k > Len(allied_ships) THEN roles
    ELSE LET ship_id == allied_ships[k].id
         IN  The({AssignInitialRoles(next, allied_ships, k + 1) :
                    next \in {IF ship_id \in DOMAIN roles THEN roles
                              ELSE Put(roles, ship_id, InitialRole(ship_id))}})

\* role_counts after the first loop: one count per roster entry
CountRoles(roles, allied_ships) ==
    [r \in Roles |->
        Cardinality({k \in 1..Len(allied_ships) : roles[allied_ships[k].id] = r})]

(***************************************************************************)
(* Agent.scheduler, target_distribution by phase.  int(total * 0.8) and    *)
(* int(total * 0.2) are floor(8n/10) and floor(2n/10) for the fleet sizes  *)
(* of the model.                                                           *)
(***************************************************************************)
PhaseMid == 250
PhaseLate == 750

\* a scheduler whose mid-game branch is a copy of the early-game branch
TargetDistributionMidAsEarly(turn, total_ships) ==
    IF turn < PhaseLate
    THEN [r \in Roles |->
            CASE r = ROLE_EXPLORE -> Max(1, (total_ships * 8) \div 10)
              [] r = ROLE_ATTACK  -> Max(0, 0)
              [] r = ROLE_DEFEND  -> Max(0, (total_ships * 2) \div 10)]
    ELSE [r \in Roles |->
            CASE r = ROLE_EXPLORE -> Max(1, 0)
              [] r = ROLE_ATTACK  -> Max(0, total_ships)
              [] r = ROLE_DEFEND  -> Max(1, 0)]

TargetDistribution(turn, total_ships) ==
    IF turn < PhaseMid
    THEN [r \in Roles |->
            CASE r = ROLE_EXPLORE -> Max(1, (total_ships * 8) \div 10)
              [] r = ROLE_ATTACK  -> Max(0, 0)
              [] r = ROLE_DEFEND  -> Max(0, (total_ships * 2) \div 10)]
    ELSE IF PhaseMid <= turn /\ turn < PhaseLate
    THEN [r \in Roles |->
            CASE r = ROLE_EXPLORE -> Max(0, (total_ships * 8) \div 10)
              [] r = ROLE_ATTACK  -> Max(1, 0)
              [] r = ROLE_DEFEND  -> Max(0, (total_ships * 2) \div 10)]
    ELSE [r \in Roles |->
            CASE r = ROLE_EXPLORE -> Max(1, 0)
              [] r = ROLE_ATTACK  -> Max(0, total_ships)
              [] r = ROLE_DEFEND  -> Max(1, 0)]

(***************************************************************************)
(* Agent.scheduler, rebalancing.  The state threaded through the loops is  *)
(* [roles, counts]; current_count always equals counts[role].              *)
(***************************************************************************)
CriticalHealth == 30

\* "if role == ROLE_ATTACK and ship_health < 30: continue"
SkipsDonor(role, ship) == role = ROLE_ATTACK /\ ship.health < CriticalHealth

\* the first ship of the roster holding excess_role that is not skipped
\* (0 when the inner for loop ends without a break)
FindDonor(roles, allied_ships, excess_role, role) ==
    LET cand == {k \in 1..Len(allied_ships) :
                    /\ Get(roles, allied_ships[k].id, None) = excess_role
                    /\ ~SkipsDonor(role, allied_ships[k])}
    IN  IF cand = {} THEN 0 ELSE CHOOSE k \in cand : \A j \in cand : k <= j

\* a donor test that also takes ships from a role sitting at its target
SurplusAtTarget(counts, target, excess_role, role) ==
    excess_role # role /\ counts[excess_role] >= target[excess_role]

\* "if excess_role != role and role_counts[excess_role] > target_distribution[excess_role]"
Surplus(counts, target, excess_role, role) ==
    excess_role # role /\ counts[excess_role] > target[excess_role]

\* "for excess_role in role_counts": one pass over the roles, e = 1..3
RECURSIVE ScanExcessRoles(_, _, _, _, _)
ScanExcessRoles(st, allied_ships, target, role, e) ==
    IF e > Len(RoleOrder) THEN st
    ELSE
      LET excess_role == RoleOrder[e]
          donor == FindDonor(st.roles, allied_ships, excess_role, role)
          surplus == Surplus(st.counts, target, excess_role, role)
          after == IF surplus /\ donor # 0
                   THEN [roles  |-> Put(st.roles, allied_ships[donor].id, role),
                         counts |-> [st.counts EXCEPT ![excess_role] = @ - 1,
                                                      ![role] = @ + 1]]
                   ELSE st
      IN  \* "if current_count >= target_count: break" sits inside the surplus branch
          The({IF surplus /\ moved.counts[role] >= target[role] THEN moved
               ELSE ScanExcessRoles(moved, allied_ships, target, role, e + 1) :
                  moved \in {after}})

\* "while current_count < target_count": after one pass of the for loop either
\* the target is reached (the while condition fails) or the trailing
\* "if current_count < target_count: break" leaves the loop, so the body runs once.
FillRole(st, allied_ships, target, role) ==
    IF st.counts[role] < target[role]
    THEN ScanExcessRoles(st, allied_ships, target, role, 1)
    ELSE st

RECURSIVE Rebalance(_, _, _, _)
Rebalance(st, allied_ships, target, r) ==
    IF r > Len(RoleOrder) THEN st
    ELSE The({Rebalance(filled, allied_ships, target, r + 1) :
                 filled \in {FillRole(st, allied_ships, target, RoleOrder[r])}})

\* roles after the balancing loops, before the cleanup
Balanced(roles, allied_ships, turn) ==
    The({Rebalance([roles |-> assigned, counts |-> CountRoles(assigned, allied_ships)],
                   allied_ships, target, 1).roles :
            assigned \in {AssignInitialRoles(roles, allied_ships, 1)},
            target \in {TargetDistribution(turn, Len(allied_ships))}})

\* "Cleanup: Remove entries for ships that no longer exist"
CleanupKeepAll(roles, allied_ships) == roles

Cleanup(roles, allied_ships) == Restrict(roles, Ids(allied_ships))

\* Agent.scheduler: the new ship_roles
scheduler(roles, allied_ships, turn) ==
    Cleanup(Balanced(roles, allied_ships, turn), allied_ships)

(***************************************************************************)
(* Tile decoding.  obs['map'] is a 100 x 100 grid of 8-bit values; the     *)
(* model keeps the non-zero tiles as records [i, j, v] (map[i][j] = v) and *)
(* every other tile is 0.  For an 8-bit v, format(v, '08b') has the bit 0  *)
(* as its last character and the bits 7, 6 as its first two.               *)
(***************************************************************************)
TileAt(map, i, j) ==
    IF \E t \in map : t.i = i /\ t.j = j
    THEN (CHOOSE t \in map : t.i = i /\ t.j = j).v
    ELSE 0

\* format(v, '08b')[-1] == '1' and format(v, '08b')[0:2] == '00'
IsValuable(v) == v % 2 = 1 /\ v \div 64 = 0

\* is_asteroid: format(point, '08b')[-2] == '1' (None, falsy, otherwise)
is_asteroid(o, x, y) == (TileAt(o.map, x, y) \div 2) % 2 = 1

ValuableTiles(map) == {t \in map : IsValuable(t.v)}

\* ones_count of tile c: valuable tiles in rows i-3 .. i+2, columns j-3 .. j+2
OnesCount(map, c) ==
    Cardinality({d \in ValuableTiles(map) :
                    /\ c.i - 3 <= d.i /\ d.i < c.i + 3
                    /\ c.j - 3 <= d.j /\ d.j < c.j + 3})

RowMajorBefore(a, b) == a.i < b.i \/ (a.i = b.i /\ a.j <= b.j)

\* the scan keeps the first tile (row-major) with the largest ones_count;
\* target_x, target_y = j, i
ExploreTarget(map) ==
    LET V == ValuableTiles(map)
        best == CHOOSE c \in V :
                    \A d \in V :
                        \/ OnesCount(map, d) < OnesCount(map, c)
                        \/ (OnesCount(map, d) = OnesCount(map, c) /\ RowMajorBefore(c, d))
    IN  [x |-> best.j, y |-> best.i]

(***************************************************************************)
(* with_emergency_return: the condition under which the wrapper returns    *)
(* return_home(ship, home_planet[0], home_planet[1]) instead of calling    *)
(* the wrapped behaviour.  home_planet is whatever planet the caller       *)
(* passes as third argument.                                               *)
(***************************************************************************)
EmergencyOverride(o, ship, planet) ==
    LET dx == Abs(ship.x - planet[1])
        dy == Abs(ship.y - planet[2])
        home_occupation == o.planets_occupation[1][3]
    IN  /\ dx + dy <= EmergencyRange
        /\ \/ (planet[1] = 9 /\ home_occupation # 0)
           \/ (planet[1] = 90 /\ home_occupation # 100)

(***************************************************************************)
(* The fire-first loop of the role behaviours: the first enemy of          *)
(* enemy_ships for which shoot_enemy_if_in_range returns a non-empty list. *)
(***************************************************************************)
FirstShot(enemy_ships, ship) ==
    LET hits == {k \in 1..Len(enemy_ships) :
                    shoot_enemy_if_in_range(enemy_ships[k], ship) # <<>>}
    IN  IF hits = {} THEN <<>>
        ELSE shoot_enemy_if_in_range(
                 enemy_ships[CHOOSE k \in hits : \A j \in hits : k <= j], ship)

(***************************************************************************)
(* get_offense_action                                                      *)
(***************************************************************************)
OffenseBody(o, ship, enemy_planet_arg) ==
    LET shot == IF ship.firing_cooldown = 0 THEN FirstShot(o.enemy_ships, ship)
                ELSE <<>>
        dx == enemy_planet_arg[1] - ship.x
        dy == enemy_planet_arg[2] - ship.y
        direction == IF Abs(dx) > Abs(dy)
                     THEN (IF dx > 0 THEN 0 ELSE 2)
                     ELSE (IF dy > 0 THEN 1 ELSE 3)
        speed == IF ship.move_cooldown = 0 THEN MaxSpeed ELSE 1
    IN  IF shot # <<>> THEN shot ELSE Move(ship.id, direction, speed)

\* @with_emergency_return def get_offense_action(obs, idx, enemy_planet)
get_offense_action(o, ship, enemy_planet_arg) ==
    IF EmergencyOverride(o, ship, enemy_planet_arg)
    THEN return_home(ship, enemy_planet_arg[1], enemy_planet_arg[2])
    ELSE OffenseBody(o, ship, enemy_planet_arg)

(***************************************************************************)
(* move_randomly_around_home.  draw.first is the direction random.randint  *)
(* returns on the first attempt that reaches it, draw.rest on the later    *)
(* ones.                                                                   *)
(***************************************************************************)
WanderTries == 10
WanderRadius == 15

WanderDirection(ship, home_x, home_y, drawn) ==
    IF home_x = 9 /\ ship.x <= home_x THEN 0
    ELSE IF home_y = 9 /\ ship.y <= home_y THEN 1
    ELSE IF home_x = 90 /\ ship.x >= home_x THEN 2
    ELSE IF home_y = 90 /\ ship.y >= home_y THEN 3
    ELSE drawn

WanderCellOk(o, ship, home_x, home_y, direction) ==
    LET new_x == ship.x + (IF direction = 0 THEN 1 ELSE IF direction = 2 THEN -1 ELSE 0)
        new_y == ship.y + (IF direction = 1 THEN 1 ELSE IF direction = 3 THEN -1 ELSE 0)
    IN  /\ 0 <= new_x /\ new_x <= BoardLast /\ 0 <= new_y /\ new_y <= BoardLast
        /\ Abs(new_x - home_x) + Abs(new_y - home_y) <= WanderRadius
        /\ ~is_asteroid(o, new_x, new_y)

RECURSIVE WanderAttempt(_, _, _, _, _, _)
WanderAttempt(o, draw, ship, home_x, home_y, n) ==
    LET direction == WanderDirection(ship, home_x, home_y,
                                     IF n = 1 THEN draw.first ELSE draw.rest)
    IN  IF WanderCellOk(o, ship, home_x, home_y, direction) \/ n >= WanderTries
        THEN Move(ship.id, direction, 1)
        ELSE WanderAttempt(o, draw, ship, home_x, home_y, n + 1)

move_randomly_around_home(o, draw, ship, home_x, home_y) ==
    WanderAttempt(o, draw, ship, home_x, home_y, 1)

(***************************************************************************)
(* get_defense_action                                                      *)
(***************************************************************************)
DefenseBody(o, draw, ship, home) ==
    LET shot == FirstShot(o.enemy_ships, ship)
    IN  IF shot # <<>> THEN shot
        ELSE IF ship.health <= CriticalHealth
             THEN return_home(ship, home[1], home[2])
             ELSE move_randomly_around_home(o, draw, ship, home[1], home[2])

\* @with_emergency_return def get_defense_action(obs, idx, home_planet)
get_defense_action(o, draw, ship, home) ==
    IF EmergencyOverride(o, ship, home)
    THEN return_home(ship, home[1], home[2])
    ELSE DefenseBody(o, draw, ship, home)

(***************************************************************************)
(* get_explore_action.  ag is the part of the Agent the behaviour reads    *)
(* and writes: [roles, dirs, pats, bumps, counter] for ship_roles,         *)
(* ship_directions, ship_patterns, ship_bump_count and                     *)
(* explore_direction_counter.  The result is [action, ag].                 *)
(***************************************************************************)
Pattern(p, s, pw, sw) ==
    [primary |-> p, secondary |-> s, primary_weight |-> pw, secondary_weight |-> sw]

\* the pattern a ship gets on its first wander, by explore_pattern and home corner
NewPattern(explore_pattern, home) ==
    IF home[1] = 9
    THEN IF explore_pattern = 0 THEN Pattern(0, 1, 4, 1)
         ELSE IF explore_pattern = 1 THEN Pattern(1, 0, 4, 1)
         ELSE Pattern(0, 1, 1, 1)
    ELSE IF explore_pattern = 0 THEN Pattern(2, 3, 4, 1)
         ELSE IF explore_pattern = 1 THEN Pattern(3, 2, 4, 1)
         ELSE Pattern(2, 3, 1, 1)

\* "if ship_id not in agent.ship_directions": pattern, direction and bump count
InitWander(ag, ship_id, home) ==
    IF ship_id \in DOMAIN ag.dirs THEN ag
    ELSE LET explore_pattern == ag.counter % 3
         IN  [ag EXCEPT !.counter = @ + 1,
                        !.pats = Put(@, ship_id, explore_pattern),
                        !.dirs = Put(@, ship_id, NewPattern(explore_pattern, home)),
                        !.bumps = Put(@, ship_id, 0)]

\* the border checks: a direction pointing into the edge the ship stands on flips
BounceH(d, ship_x) ==
    IF (d = 0 /\ ship_x >= BoardLast) \/ (d = 2 /\ ship_x <= 0)
    THEN (IF d = 0 THEN 2 ELSE 0) ELSE d

BounceV(d, ship_y) ==
    IF (d = 1 /\ ship_y >= BoardLast) \/ (d = 3 /\ ship_y <= 0)
    THEN (IF d = 1 THEN 3 ELSE 1) ELSE d

Bounce(d, ship) == BounceV(BounceH(d, ship.x), ship.y)

\* "if agent.ship_bump_count[ship_id] >= 2"
EscalatesAtThree(bump_count) == bump_count >= 3

Escalates(bump_count) == bump_count >= 2

\* min(3, abs(d)) of the move toward a valuable tile
TargetSpeedUncapped(d) == Abs(d)

TargetSpeed(d) == Min(MaxSpeed, Abs(d))

\* the branch taken when a valuable tile is visible; draw.jx, draw.jy are the
\* two random.choice results (+2 or -2)
TowardTarget(o, draw, ship) ==
    LET target == ExploreTarget(o.map)
        dx == ship.x - (target.x + draw.jx)
        dy == ship.y - (target.y + draw.jy)
    IN  IF Abs(dx) > Abs(dy)
        THEN IF dx > 0 THEN Move(ship.id, 2, TargetSpeed(dx))
                       ELSE Move(ship.id, 0, TargetSpeed(dx))
        ELSE IF dy > 0 THEN Move(ship.id, 3, TargetSpeed(dy))
                       ELSE Move(ship.id, 1, TargetSpeed(dy))

\* the branch taken when no valuable tile is visible
Wander(o, ship, home, ag0, turn, enemy_planet_arg) ==
    LET ag1 == InitWander(ag0, ship.id, home)
        old == ag1.dirs[ship.id]
        new == [old EXCEPT !.primary = Bounce(old.primary, ship),
                           !.secondary = Bounce(old.secondary, ship)]
        hit_border == new # old
        bump_count == Get(ag1.bumps, ship.id, 0) + 1
        ag2 == IF hit_border
               THEN [ag1 EXCEPT !.dirs = Put(@, ship.id, new),
                                !.bumps = Put(@, ship.id, bump_count)]
               ELSE ag1
        total_weight == new.primary_weight + new.secondary_weight
        step_in_cycle == (turn + ship.id) % total_weight
        direction == IF step_in_cycle < new.primary_weight
                     THEN new.primary ELSE new.secondary
        speed == IF ship.move_cooldown > 0 THEN 1 ELSE MaxSpeed
    IN  IF hit_border /\ Escalates(bump_count)
        THEN [action |-> get_offense_action(o, ship, enemy_planet_arg),
              ag |-> [ag2 EXCEPT !.roles = Put(@, ship.id, ROLE_ATTACK)]]
        ELSE [action |-> Move(ship.id, direction, speed), ag |-> ag2]

ExploreBody(o, draw, ship, home, ag, turn, enemy_planet_arg) ==
    LET shot == IF ship.firing_cooldown = 0 THEN FirstShot(o.enemy_ships, ship)
                ELSE <<>>
    IN  IF shot # <<>> THEN [action |-> shot, ag |-> ag]
        ELSE IF ValuableTiles(o.map) # {}
             THEN [action |-> TowardTarget(o, draw, ship), ag |-> ag]
             ELSE Wander(o, ship, home, ag, turn, enemy_planet_arg)

\* @with_emergency_return def get_explore_action(obs, idx, home_planet, agent)
get_explore_action(o, draw, ship, home, ag, turn, enemy_planet_arg) ==
    IF EmergencyOverride(o, ship, home)
    THEN [action |-> return_home(ship, home[1], home[2]), ag |-> ag]
    ELSE ExploreBody(o, draw, ship, home, ag, turn, enemy_planet_arg)

(***************************************************************************)
(* Agent.get_action: the dispatch loop over allied_ships, in roster order. *)
(* st is [ag, actions].                                                    *)
(***************************************************************************)
Dispatch(o, draw, ship, home, enemy_planet_arg, ag, turn) ==
    LET role == ag.roles[ship.id]
    IN  IF role = ROLE_DEFEND
        THEN [action |-> get_defense_action(o, draw, ship, home), ag |-> ag]
        ELSE IF role = ROLE_EXPLORE
        THEN get_explore_action(o, draw, ship, home, ag, turn, enemy_planet_arg)
        ELSE IF role = ROLE_ATTACK
        THEN [action |-> get_offense_action(o, ship, enemy_planet_arg), ag |-> ag]
        ELSE get_explore_action(o, draw, ship, home, ag, turn, enemy_planet_arg)

RECURSIVE DispatchAll(_, _, _, _, _, _, _)
DispatchAll(o, draws, home, enemy_planet_arg, st, turn, k) ==
    IF k > Len(o.allied_ships) THEN st
    ELSE LET r == Dispatch(o, draws[k], o.allied_ships[k], home, enemy_planet_arg,
                           st.ag, turn)
         IN  DispatchAll(o, draws, home, enemy_planet_arg,
                         [ag |-> r.ag, actions |-> Append(st.actions, r.action)],
                         turn, k + 1)

\* "if self.home_planet is None and planets_occupation"
LatchesAlways(home, planets_occupation) == planets_occupation # <<>>

Latches(home, planets_occupation) == home = None /\ planets_occupation # <<>>

LatchedHome(home, planets_occupation) ==
    IF Latches(home, planets_occupation) THEN planets_occupation[1] ELSE home

LatchedEnemy(home, enemy, planets_occupation) ==
    IF Latches(home, planets_occupation)
    THEN (IF planets_occupation[1][1] = 9 THEN <<90, 90>> ELSE <<9, 9>>)
    ELSE enemy

\* self.last_known_enemy_positions[enemy[0]] = (enemy[1], enemy[2], turn)
RECURSIVE TrackEnemies(_, _, _, _)
TrackEnemies(known, enemy_ships, turn, k) ==
    IF k > Len(enemy_ships) THEN known
    ELSE TrackEnemies(Put(known, enemy_ships[k].id,
                          <<enemy_ships[k].x, enemy_ships[k].y, turn>>),
                      enemy_ships, turn, k + 1)

(***************************************************************************)
(* Bounds of the model                                                     *)
(***************************************************************************)
MaxShipId == 2     \* ship ids 0 .. MaxShipId
MaxFleetId == 5    \* ship ids 0 .. MaxFleetId of the scheduler's rosters
MaxSteps == 2      \* get_action calls explored after the start of a run
ShootSpan == 10    \* enemies up to this far from the ship on each axis

ShipIds == 0..MaxShipId

(***************************************************************************)
(* Observations.  The environment reports the agent's own home planet      *)
(* first: side 0 starts at (9, 9) and owns it at occupation 0, side 1      *)
(* starts at (90, 90) and owns it at occupation 100.  Every observation    *)
(* that reports a ship reports a planet.                                   *)
(***************************************************************************)
Sides == {0, 1}
Corner(s) == IF s = 0 THEN 9 ELSE 90
Owned(s) == IF s = 0 THEN 0 ELSE 100
Contested == 50

Cell(x, y) == [x |-> x, y |-> y]
Mid == Cell(50, 50)
\* near the own home planet, off its row and column
Near(s) == IF s = 0 THEN Cell(12, 12) ELSE Cell(87, 87)
AtHomeCell(s) == Cell(Corner(s), Corner(s))
\* the board corner behind the own home planet: more than 100 from the enemy planet
Far(s) == IF s = 0 THEN Cell(0, 0) ELSE Cell(BoardLast, BoardLast)
Cells(s) == {Cell(0, 0), Cell(BoardLast, BoardLast), Cell(BoardLast, 50),
             Cell(0, 50), Mid,
             Near(s), AtHomeCell(s)}

Healthy == 31
\* one ship id for each initial role
SoloIds == {0, 1, 2}

Planets(s, occupation) == << <<Corner(s), Corner(s), occupation>> >>
\* a neutral planet reported ahead of the home planet
NeutralFirst(s) == << <<50, 50, -1>>, <<Corner(s), Corner(s), Owned(s)>> >>

DefaultDraw == [first |-> 0, rest |-> 1, jx |-> 2, jy |-> 2]
DefaultDraws(n) == [k \in 1..n |-> DefaultDraw]

Observation(allied, enemies, planets, map) ==
    [allied_ships |-> allied, enemy_ships |-> enemies,
     planets_occupation |-> planets, map |-> map]

Input(o, draws) == [o |-> o, draws |-> draws]

RECURSIVE Ascending(_)
Ascending(S) ==
    IF S = {} THEN <<>>
    ELSE LET m == CHOOSE x \in S : \A y \in S : x <= y
         IN  <<m>> \o Ascending(S \ {m})

Reverse(q) == [k \in 1..Len(q) |-> q[Len(q) + 1 - k]]

AscendingRosters == {Ascending(S) : S \in SUBSET ShipIds}
RosterOrders == AscendingRosters \cup {Reverse(q) : q \in AscendingRosters}

\* health plans of the fleet family: every ship at the critical level, or a
\* first ship below it followed by healthy ships
HealthPlans == {"critical", "weak first"}
PlanHealth(plan, k) ==
    IF plan = "critical" THEN CriticalHealth
    ELSE IF k = 1 THEN CriticalHealth - 1 ELSE Healthy

Fleet(ids, plan) ==
    [k \in 1..Len(ids) |-> Ship(ids[k], Mid.x, Mid.y, PlanHealth(plan, k), 1, 0)]

\* rosters of every membership at mid-board: ascending with every ship at the
\* critical level, in both orders with a weak first ship
FleetInputs(s) ==
    {Input(Observation(Fleet(ids, "critical"), <<>>, Planets(s, Owned(s)), {}),
           DefaultDraws(Len(ids))) : ids \in AscendingRosters}
    \cup
    {Input(Observation(Fleet(ids, "weak first"), <<>>, Planets(s, Owned(s)), {}),
           DefaultDraws(Len(ids))) : ids \in RosterOrders}

\* one ship: the explorer id at every cell; every id at mid-board and in the far
\* corner, with the home planet owned or contested
PositionInputs(s) ==
    {Input(Observation(<<Ship(0, c.x, c.y, Healthy, 1, 0)>>, <<>>,
                       Planets(s, Owned(s)), {}),
           DefaultDraws(1)) : c \in Cells(s)}
    \cup
    {Input(Observation(<<Ship(i, c.x, c.y, Healthy, 1, 0)>>, <<>>,
                       Planets(s, occ), {}),
           DefaultDraws(1)) :
        i \in SoloIds, c \in {Mid, Far(s)}, occ \in {Owned(s), Contested}}

\* enemies placed relative to the ship, toward the inside of the board
Enemy(i, x, y) == Ship(i, x, y, Healthy, 0, 0)
EnemyViews(c) ==
    LET sg == IF c.y > 50 THEN -1 ELSE 1
    IN  { << Enemy(100, c.x, c.y + 5 * sg) >>,
          << Enemy(100, c.x, c.y + (FireRange + 1) * sg),
             Enemy(101, c.x + FireRange * sg, c.y) >> }

\* one ship with enemies around it, firing cooldown 0 or 1, moving slowly
CombatInputs(s) ==
    UNION {
        {Input(Observation(<<Ship(i, c.x, c.y, Healthy, fc, 1)>>, view,
                           Planets(s, Owned(s)), {}),
               DefaultDraws(1)) :
            i \in SoloIds, fc \in {0, 1}, view \in EnemyViews(c)} :
        c \in {Mid, Far(s)}}

\* an explorer at mid-board and a defender near home, with the random draws
\* of the defender's wander and an asteroid next to it or not
AsteroidBeside(c) == {[i |-> c.x + 1, j |-> c.y, v |-> 2]}
WanderObservation(s, map) ==
    Observation(<<Ship(0, Mid.x, Mid.y, Healthy, 1, 0),
                  Ship(2, Near(s).x, Near(s).y, Healthy, 1, 0)>>,
                <<>>, Planets(s, Owned(s)), map)
WanderDraws(d) ==
    <<DefaultDraw, [DefaultDraw EXCEPT !.first = d, !.rest = (d + 1) % 4]>>
WanderInputs(s) ==
    {Input(WanderObservation(s, {}), WanderDraws(d)) : d \in 0..3}
    \cup {Input(WanderObservation(s, AsteroidBeside(Near(s))), WanderDraws(0))}

\* one ship at mid-board with valuable tiles on the map and the jitter draws
TileMaps ==
    { {[i |-> 48, j |-> 52, v |-> 1]},
      {[i |-> 10, j |-> 10, v |-> 1], [i |-> 10, j |-> 11, v |-> 1],
       [i |-> 60, j |-> 60, v |-> 1], [i |-> 5, j |-> 5, v |-> 65]} }
TargetInputs(s) ==
    {Input(Observation(<<Ship(0, Mid.x, Mid.y, Healthy, 1, 0)>>, <<>>,
                       Planets(s, Owned(s)), map),
           <<[DefaultDraw EXCEPT !.jx = jx, !.jy = jy]>>) :
        map \in TileMaps, jx \in {2, -2}, jy \in {2, -2}}

\* a neutral planet listed first; and an observation that reports nothing
OtherInputs(s) ==
    {Input(Observation(<<Ship(0, Mid.x, Mid.y, Healthy, 1, 0)>>, <<>>,
                       NeutralFirst(s), {}), DefaultDraws(1)),
     Input(Observation(<<>>, <<>>, <<>>, {}), <<>>)}

InputsOf(s) ==
    FleetInputs(s) \cup PositionInputs(s) \cup CombatInputs(s)
        \cup WanderInputs(s) \cup TargetInputs(s) \cup OtherInputs(s)

Inputs == [s \in Sides |-> InputsOf(s)]

\* A run starts at construction or after that many get_action calls on
\* observations that report nothing: such calls only advance turn_counter.
TurnStarts == {0, PhaseMid - 2, PhaseLate - 2}

NoObservation == Observation(<<>>, <<>>, <<>>, {})

(***************************************************************************)
(* Agent.__init__                                                          *)
(***************************************************************************)
\* the per-ship state of a fresh Agent
NoAgentPart ==
    [roles |-> EmptyDict, dirs |-> EmptyDict, pats |-> EmptyDict,
     bumps |-> EmptyDict, counter |-> 0]

AgentInit ==
    /\ side \in Sides
    /\ home_planet = None
    /\ enemy_planet = None
    /\ ship_roles = EmptyDict
    /\ turn_counter \in TurnStarts
    /\ last_known_enemy_positions = EmptyDict
    /\ ship_bump_count = EmptyDict
    /\ ship_directions = EmptyDict
    /\ ship_patterns = EmptyDict
    /\ explore_direction_counter = 0
    /\ calls = 0
    /\ obs = NoObservation
    /\ rnd = <<>>
    /\ roles_before = EmptyDict
    /\ ag_scheduled = NoAgentPart
    /\ result = None

ShootIdle ==
    /\ sh_ship = None /\ sh_enemy = None /\ sh_choice = None

HomeIdle ==
    /\ rh_ship = None /\ rh_home = None /\ rh_move = None

SchedIdle ==
    /\ sc_ships = <<>> /\ sc_called = FALSE

Init == AgentInit /\ ShootIdle /\ HomeIdle /\ SchedIdle

(***************************************************************************)
(* Agent.get_action                                                        *)
(***************************************************************************)
GetAction ==
    /\ calls < MaxSteps
    /\ \E in \in Inputs[side] :
        LET o == in.o
            turn == turn_counter + 1
            home == LatchedHome(home_planet, o.planets_occupation)
            enemy == LatchedEnemy(home_planet, enemy_planet, o.planets_occupation)
        IN  \E scheduled \in {scheduler(ship_roles, o.allied_ships, turn)} :
            \E ag \in {[roles |-> scheduled,
                        dirs |-> ship_directions,
                        pats |-> ship_patterns,
                        bumps |-> ship_bump_count,
                        counter |-> explore_direction_counter]} :
            \E fin \in {DispatchAll(o, in.draws, home, enemy,
                                    [ag |-> ag, actions |-> <<>>], turn, 1)} :
            /\ turn_counter' = turn
            /\ home_planet' = home
            /\ enemy_planet' = enemy
            /\ last_known_enemy_positions' =
                   TrackEnemies(last_known_enemy_positions, o.enemy_ships, turn, 1)
            /\ ship_roles' = fin.ag.roles
            /\ ship_directions' = fin.ag.dirs
            /\ ship_patterns' = fin.ag.pats
            /\ ship_bump_count' = fin.ag.bumps
            /\ explore_direction_counter' = fin.ag.counter
            /\ result' = [ships_actions |-> fin.actions, construction |-> 10]
            /\ obs' = o
            /\ rnd' = in.draws
            /\ roles_before' = ship_roles
            /\ ag_scheduled' = ag
    /\ calls' = calls + 1
    /\ UNCHANGED <<side, shootVars, homeVars, schedVars>>

Next == GetAction

Spec == Init /\ [][Next]_vars

(***************************************************************************)
(* Harness for shoot_enemy_if_in_range: a ship on the board, an enemy up   *)
(* to ShootSpan away on each axis, one call.                               *)
(***************************************************************************)
ShootShipCells == {Cell(10, 10), Cell(0, 0), Cell(BoardLast, BoardLast)}

OnBoard(x, y) == 0 <= x /\ x <= BoardLast /\ 0 <= y /\ y <= BoardLast

ShootInit ==
    /\ \E c \in ShootShipCells, i \in SoloIds :
           sh_ship = Ship(i, c.x, c.y, Healthy, 0, 0)
    /\ \E ddx \in -ShootSpan..ShootSpan, ddy \in -ShootSpan..ShootSpan :
           /\ OnBoard(sh_ship.x + ddx, sh_ship.y + ddy)
           /\ sh_enemy = Enemy(100, sh_ship.x + ddx, sh_ship.y + ddy)
    /\ sh_choice = None

ShootCall ==
    /\ sh_choice = None
    /\ sh_choice' = shoot_enemy_if_in_range(sh_enemy, sh_ship)
    /\ UNCHANGED <<sh_ship, sh_enemy, agentVars, callVars, homeVars, schedVars>>

InitShoot == AgentInit /\ turn_counter = 0 /\ side = 0 /\ HomeIdle /\ SchedIdle /\ ShootInit

SpecShoot == InitShoot /\ [][ShootCall]_vars

(***************************************************************************)
(* Harness for return_home: from any cell of the board the ship executes every returned move exactly  *)
(* (speed cells in the direction), and return_home is called again, until  *)
(* a call returns speed 0.                                                 *)
(***************************************************************************)
HomeCells == {<<9, 9>>, <<90, 90>>}

ApplyMove(ship, action) ==
    LET direction == action[3]
        speed == action[4]
    IN  [ship EXCEPT
            !.x = @ + (IF direction = 0 THEN speed ELSE IF direction = 2 THEN -speed ELSE 0),
            !.y = @ + (IF direction = 1 THEN speed ELSE IF direction = 3 THEN -speed ELSE 0)]

WalkInit ==
    /\ rh_home \in HomeCells
    /\ \E x \in 0..BoardLast, y \in 0..BoardLast :
           rh_ship = Ship(0, x, y, Healthy, 0, 0)
    /\ rh_move = None

ReturnHomeStep ==
    /\ (IF rh_move = None THEN TRUE ELSE rh_move[4] # 0)
    /\ rh_move' = return_home(rh_ship, rh_home[1], rh_home[2])
    /\ rh_ship' = ApplyMove(rh_ship, rh_move')
    /\ UNCHANGED <<rh_home, agentVars, callVars, shootVars, schedVars>>

InitWalk == AgentInit /\ turn_counter = 0 /\ side = 0 /\ ShootIdle /\ SchedIdle /\ WalkInit

\* return_home is called on every step of the walk
SpecWalk == InitWalk /\ [][ReturnHomeStep]_vars /\ WF_vars(ReturnHomeStep)

(***************************************************************************)
(* Harness for Agent.scheduler: a fresh Agent whose turn counter stays in  *)
(* one phase is given the same roster on every call.                       *)
(***************************************************************************)
FleetIds == 0..MaxFleetId

SchedRosters ==
    LET asc == {Ascending(S) : S \in SUBSET FleetIds}
    IN  asc \cup {Reverse(q) : q \in asc}

\* every ship healthy, every ship at the critical level, every ship below it,
\* or a first ship below it followed by healthy ships
SchedPlans == {"sound", "critical", "weak", "weak first"}
SchedHealth(plan, k) ==
    IF plan = "sound" THEN Healthy
    ELSE IF plan = "weak" THEN CriticalHealth - 1
    ELSE PlanHealth(plan, k)

\* the first and last turn of the early and mid phases, the first of the late
PhaseTurns == {0, PhaseMid - 1, PhaseMid, PhaseLate - 1, PhaseLate}

SchedInit ==
    /\ \E ids \in SchedRosters, plan \in SchedPlans :
           sc_ships = [k \in 1..Len(ids) |->
                          Ship(ids[k], Mid.x, Mid.y, SchedHealth(plan, k), 1, 0)]
    /\ sc_called = FALSE

SchedulerCall ==
    /\ ship_roles' = scheduler(ship_roles, sc_ships, turn_counter)
    /\ sc_called' = TRUE
    /\ UNCHANGED <<sc_ships, side, home_planet, enemy_planet, turn_counter,
                   last_known_enemy_positions, ship_bump_count, ship_directions,
                   ship_patterns, explore_direction_counter,
                   callVars, shootVars, homeVars>>

InitSched ==
    /\ side = 0
    /\ home_planet = None
    /\ enemy_planet = None
    /\ ship_roles = EmptyDict
    /\ turn_counter \in PhaseTurns
    /\ last_known_enemy_positions = EmptyDict
    /\ ship_bump_count = EmptyDict
    /\ ship_directions = EmptyDict
    /\ ship_patterns = EmptyDict
    /\ explore_direction_counter = 0
    /\ calls = 0
    /\ obs = NoObservation
    /\ rnd = <<>>
    /\ roles_before = EmptyDict
    /\ ag_scheduled = NoAgentPart
    /\ result = None
    /\ ShootIdle /\ HomeIdle /\ SchedInit

\* the scheduler is called on every turn
SpecSched == InitSched /\ [][SchedulerCall]_vars /\ WF_vars(SchedulerCall)

(***************************************************************************)
(* Properties                                                              *)
(***************************************************************************)
Called == calls > 0
Roster == obs.allied_ships
Positions == 1..Len(Roster)
Actions == result.ships_actions
roles_scheduled == ag_scheduled.roles

\* the roles after step 1 of the scheduler, before any rebalancing
RolesAssigned == AssignInitialRoles(roles_before, Roster, 1)

\* C1: after every scheduler call the keys of ship_roles are exactly the ship
\* ids of that step's roster and every value is one of the three roles, so
\* the lookup self.ship_roles[ship_id] of the dispatch loop never misses.
C1_RolesCoverRoster ==
    Called =>
        /\ DOMAIN roles_scheduled = Ids(Roster)
        /\ \A i \in DOMAIN roles_scheduled : roles_scheduled[i] \in Roles
        /\ DOMAIN ship_roles = Ids(Roster)
        /\ \A i \in DOMAIN ship_roles : ship_roles[i] \in Roles

\* a call whose roster lost a ship that had a role and gained one that had none
C1_Witness ==
    /\ Called
    /\ \E i \in DOMAIN roles_before : i \notin Ids(Roster)
    /\ \E i \in Ids(Roster) : i \notin DOMAIN roles_before

\* C2: the rebalancing never changes a ship's role to Attack when the ship's
\* health is less than or equal to 30.
C2_NoCriticalShipToAttack ==
    Called =>
        \A k \in Positions :
            LET ship == Roster[k]
            IN  (/\ RolesAssigned[ship.id] # ROLE_ATTACK
                 /\ roles_scheduled[ship.id] = ROLE_ATTACK)
                => ship.health > CriticalHealth

(***************************************************************************)
(* The home planet as the emergency claims speak of it: the latched planet *)
(* is a home corner, the observation reports it first, and its current     *)
(* occupation is the one reported.                                         *)
(***************************************************************************)
FullyOwned(home) == IF home[1] = 9 THEN 0 ELSE 100
HomeReportedFirst ==
    /\ Called
    /\ home_planet # None
    /\ home_planet[1] \in {9, 90}
    /\ obs.planets_occupation # <<>>
    /\ obs.planets_occupation[1][1] = home_planet[1]
    /\ obs.planets_occupation[1][2] = home_planet[2]
HomeOccupation == obs.planets_occupation[1][3]
HomeDistance(ship) == Abs(ship.x - home_planet[1]) + Abs(ship.y - home_planet[2])

\* C3: for a ship of any role within 100 of the latched home planet, when the
\* home planet's occupation differs from the fully-owned value of its side,
\* the emitted action is the return-home move toward the home planet.
C3_EmergencyReturnForEveryRole ==
    (HomeReportedFirst /\ HomeOccupation # FullyOwned(home_planet)) =>
        \A k \in Positions :
            HomeDistance(Roster[k]) <= EmergencyRange
            => Actions[k] = return_home(Roster[k], home_planet[1], home_planet[2])

\* the dispatch loop with the role behaviours called without their wrapper
UnwrappedDispatch(o, draw, ship, home, enemy_planet_arg, ag, turn) ==
    LET role == ag.roles[ship.id]
    IN  IF role = ROLE_DEFEND
        THEN [action |-> DefenseBody(o, draw, ship, home), ag |-> ag]
        ELSE IF role = ROLE_ATTACK
        THEN [action |-> OffenseBody(o, ship, enemy_planet_arg), ag |-> ag]
        ELSE ExploreBody(o, draw, ship, home, ag, turn, enemy_planet_arg)

RECURSIVE UnwrappedAll(_, _, _, _, _, _, _)
UnwrappedAll(o, draws, home, enemy_planet_arg, st, turn, k) ==
    IF k > Len(o.allied_ships) THEN st
    ELSE LET r == UnwrappedDispatch(o, draws[k], o.allied_ships[k], home,
                                    enemy_planet_arg, st.ag, turn)
         IN  UnwrappedAll(o, draws, home, enemy_planet_arg,
                          [ag |-> r.ag, actions |-> Append(st.actions, r.action)],
                          turn, k + 1)

\* C4: when the home planet's occupation equals the fully-owned value of its
\* side the wrapper never overrides: every emitted action is the one the
\* unwrapped behaviour of the ship's role returns.
C4_NoOverrideWhenHomeOwned ==
    (HomeReportedFirst /\ HomeOccupation = FullyOwned(home_planet)) =>
        Actions = UnwrappedAll(obs, rnd, home_planet, enemy_planet,
                               [ag |-> ag_scheduled, actions |-> <<>>],
                               turn_counter, 1).actions

\* C5: shoot_enemy_if_in_range returns the fire action [ship id, 1, direction]
\* exactly when the enemy is in the ship's row or column, not in its cell, and
\* 1 to 8 tiles away, the direction being the cardinal direction from ship to
\* enemy (0 right, 1 down, 2 left, 3 up); in every other case it returns [].
C5_FireIffAlignedWithinEight ==
    sh_choice # None =>
        LET ddx == sh_enemy.x - sh_ship.x
            ddy == sh_enemy.y - sh_ship.y
        IN  /\ (ddy = 0 /\ 1 <= ddx /\ ddx <= 8) => sh_choice = <<sh_ship.id, 1, 0>>
            /\ (ddx = 0 /\ 1 <= ddy /\ ddy <= 8) => sh_choice = <<sh_ship.id, 1, 1>>
            /\ (ddy = 0 /\ -8 <= ddx /\ ddx <= -1) => sh_choice = <<sh_ship.id, 1, 2>>
            /\ (ddx = 0 /\ -8 <= ddy /\ ddy <= -1) => sh_choice = <<sh_ship.id, 1, 3>>
            /\ (ddx # 0 /\ ddy # 0) => sh_choice = <<>>
            /\ (ddx = 0 /\ ddy = 0) => sh_choice = <<>>
            /\ (Abs(ddx) > 8 \/ Abs(ddy) > 8) => sh_choice = <<>>

\* a shot at exactly 8 tiles
C5_Witness ==
    /\ sh_choice # None
    /\ sh_choice # <<>>
    /\ Abs(sh_enemy.x - sh_ship.x) + Abs(sh_enemy.y - sh_ship.y) = 8

WalkAtHome == rh_ship.x = rh_home[1] /\ rh_ship.y = rh_home[2]
WalkDistance(ship) == Abs(ship.x - rh_home[1]) + Abs(ship.y - rh_home[2])
\* no coordinate passes to the other side of home
NoOvershoot ==
    /\ (rh_ship.x - rh_home[1]) * (rh_ship'.x - rh_home[1]) >= 0
    /\ (rh_ship.y - rh_home[2]) * (rh_ship'.y - rh_home[2]) >= 0

\* C6: with every returned move executed exactly, each return_home call made
\* away from home strictly decreases the Manhattan distance to home without
\* overshooting, a call made at home returns speed 0, and the ship reaches
\* home and stays there.
C6_ReturnHomeConverges ==
    /\ [][/\ ~WalkAtHome => (WalkDistance(rh_ship') < WalkDistance(rh_ship) /\ NoOvershoot)
          /\ WalkAtHome => (rh_move'[4] = 0 /\ rh_ship' = rh_ship)]_vars
    /\ <>[]WalkAtHome

\* a walk ended at home with a call that returned speed 0
C6_Witness ==
    /\ rh_move # None
    /\ WalkAtHome
    /\ rh_move[4] = 0

\* the ship at roster position k reaches the wander branch of
\* get_explore_action: role Explore, no emergency override, no shot, no
\* valuable tile on the map
ReachesWander(k) ==
    LET ship == Roster[k]
    IN  /\ roles_scheduled[ship.id] = ROLE_EXPLORE
        /\ ~EmergencyOverride(obs, ship, home_planet)
        /\ (ship.firing_cooldown # 0 \/ FirstShot(obs.enemy_ships, ship) = <<>>)
        /\ ValuableTiles(obs.map) = {}

\* its pattern existed before the call with bump count 1, and its primary or
\* secondary direction points into a board edge the ship stands on
SecondBump(k) ==
    LET ship == Roster[k]
    IN  /\ ship.id \in DOMAIN ag_scheduled.dirs
        /\ ag_scheduled.bumps[ship.id] = 1
        /\ LET d == ag_scheduled.dirs[ship.id]
           IN  \/ (d.primary = 0 /\ ship.x >= BoardLast) \/ (d.primary = 2 /\ ship.x <= 0)
               \/ (d.primary = 1 /\ ship.y >= BoardLast) \/ (d.primary = 3 /\ ship.y <= 0)
               \/ (d.secondary = 0 /\ ship.x >= BoardLast) \/ (d.secondary = 2 /\ ship.x <= 0)
               \/ (d.secondary = 1 /\ ship.y >= BoardLast) \/ (d.secondary = 3 /\ ship.y <= 0)

IsFire(a) == Len(a) = 3 /\ a[2] = 1
IsMove(a) == Len(a) = 4 /\ a[2] = 0
\* a move whose direction points from the ship to the planet
MovesToward(ship, a, planet) ==
    /\ IsMove(a)
    /\ \/ (a[3] = 0 /\ planet[1] > ship.x) \/ (a[3] = 2 /\ planet[1] < ship.x)
       \/ (a[3] = 1 /\ planet[2] > ship.y) \/ (a[3] = 3 /\ planet[2] < ship.y)

\* C7: an Explore ship with bump count 1 that reaches the wander branch with a
\* direction pointing into the edge it stands on gets bump count 2 and role
\* Attack, and its action is the one get_offense_action returns: a fire or a
\* move toward the enemy planet.
C7_SecondBumpEscalates ==
    Called =>
        \A k \in Positions :
            (ReachesWander(k) /\ SecondBump(k)) =>
                LET ship == Roster[k]
                IN  /\ ship_bump_count[ship.id] = 2
                    /\ ship_roles[ship.id] = ROLE_ATTACK
                    /\ Actions[k] = get_offense_action(obs, ship, enemy_planet)
                    /\ \/ IsFire(Actions[k])
                       \/ MovesToward(ship, Actions[k], enemy_planet)

C7_Witness ==
    /\ Called
    /\ \E k \in Positions : ReachesWander(k) /\ SecondBump(k)

\* C8: once a get_action call has latched home_planet (the first entry of
\* planets_occupation) and enemy_planet, every later call leaves both
\* unchanged, whatever it observes.
C8_PlanetsLatchedOnce ==
    [][/\ home_planet # None =>
            (home_planet' = home_planet /\ enemy_planet' = enemy_planet)
       /\ (home_planet = None /\ home_planet' # None) =>
            /\ home_planet' = obs'.planets_occupation[1]
            /\ enemy_planet' = IF home_planet'[1] = 9 THEN <<90, 90>> ELSE <<9, 9>>]_vars

\* a later call observed another first planet entry than the latched one
C8_Witness ==
    /\ calls >= 2
    /\ home_planet # None
    /\ obs.planets_occupation # <<>>
    /\ obs.planets_occupation[1] # home_planet

\* C9: after every get_action call the role map, the direction patterns and
\* the bump counters hold no entry for a ship absent from the roster, and
\* pattern and bump entries exist only for ships still in the Explore role.
C9_NoStalePerShipState ==
    Called =>
        /\ DOMAIN ship_roles \subseteq Ids(Roster)
        /\ \A i \in (DOMAIN ship_directions) \cup (DOMAIN ship_bump_count) :
               /\ i \in Ids(Roster)
               /\ ship_roles[i] = ROLE_EXPLORE

\* C10: with a latched home planet get_action returns one action per ship of
\* allied_ships, in roster order, each starting with the ship's id and being
\* a move [id, 0, direction, speed] with direction and speed in 0..3 or a
\* fire [id, 1, direction] with direction in 0..3; construction is an integer.
C10_ActionsWellFormed ==
    (Called /\ home_planet # None) =>
        /\ Len(Actions) = Len(Roster)
        /\ \A k \in Positions :
               LET a == Actions[k]
               IN  /\ Len(a) \in {3, 4}
                   /\ a[1] = Roster[k].id
                   /\ a[3] \in 0..3
                   /\ \/ (IsMove(a) /\ a[4] \in 0..3)
                      \/ IsFire(a)
        /\ result.construction \in Int

\* a call that returned a move of speed 0 (the jittered target is the ship's cell)
C10_Witness ==
    /\ Called
    /\ home_planet # None
    /\ \E k \in Positions : IsMove(Actions[k]) /\ Actions[k][4] = 0

(***************************************************************************)
(* Properties of the scheduler under a fixed roster and phase              *)
(***************************************************************************)
SchedSize == Len(sc_ships)
SchedTarget == TargetDistribution(turn_counter, SchedSize)
\* the roles the next rebalancing starts from (step 1 gives every ship a role)
RolesNow == AssignInitialRoles(ship_roles, sc_ships, 1)
SchedCounts == CountRoles(RolesNow, sc_ships)

EarlyTurns == {0, PhaseMid - 1}
MidTurns == {PhaseMid, PhaseLate - 1}

EligibleDonor(role, donor_role) ==
    \E k \in 1..SchedSize :
        /\ RolesNow[sc_ships[k].id] = donor_role
        /\ ~SkipsDonor(role, sc_ships[k])

\* some role is below its target while another role is above its own target
\* and holds a ship eligible for the move
Unbalanced ==
    \E role \in Roles : \E donor_role \in Roles \ {role} :
        /\ SchedCounts[role] < SchedTarget[role]
        /\ SchedCounts[donor_role] > SchedTarget[donor_role]
        /\ EligibleDonor(role, donor_role)

\* C12: after one scheduler call no role is still below its target while
\* another role is above its own target and contains an eligible ship.
C12_RebalancesUntilDonorsRunOut == sc_called => ~Unbalanced

AllSound == \A k \in 1..SchedSize : sc_ships[k].health >= CriticalHealth

Distance(counts, r) == Abs(counts[r] - SchedTarget[r])

\* a call's reassignments: each takes a ship out of a role strictly above its
\* target into a role strictly below its target, and no distance grows
MovesTowardTargets ==
    LET before == SchedCounts
        after  == SchedCounts'
    IN  /\ \A k \in 1..SchedSize :
               LET i == sc_ships[k].id
               IN  RolesNow[i] # RolesNow'[i] =>
                       /\ before[RolesNow[i]] > SchedTarget[RolesNow[i]]
                       /\ before[RolesNow'[i]] < SchedTarget[RolesNow'[i]]
        /\ \A r \in Roles : Distance(after, r) <= Distance(before, r)

\* C13: with a fixed roster of ships of health at least 30 in a fixed phase,
\* every call's reassignments go from a role above its target to a role below
\* its target and no role's distance to its target grows; repeated calls reach
\* a state with no role below target while another is above, and from then on
\* calls change no role.
C13_SchedulerConverges ==
    /\ [][AllSound => MovesTowardTargets]_vars
    /\ <>[](AllSound => ~Unbalanced)
    /\ [][(AllSound /\ ~Unbalanced) => RolesNow' = RolesNow]_vars

\* a balanced roster of sound ships in which two ships of the same initial
\* role ended in the same other role: one call moves one ship per donor role
\* into a role, so this took more than one call
C13_Witness ==
    /\ sc_called /\ AllSound /\ ~Unbalanced
    /\ \E role \in Roles : \E donor_role \in Roles \ {role} :
           Cardinality({i \in DOMAIN ship_roles :
                           InitialRole(i) = donor_role /\ ship_roles[i] = role}) >= 2

(***************************************************************************)
(* Properties of the fire-first check of the role behaviours               *)
(***************************************************************************)
\* the planet get_action hands to the wrapper of the ship's role behaviour
WrapperPlanet(ship) ==
    IF roles_scheduled[ship.id] = ROLE_ATTACK THEN enemy_planet ELSE home_planet

\* C14: when no emergency override applies, the behaviour of every role
\* returns a fire action exactly when the ship's firing cooldown is 0 and some
\* enemy is aligned within 8 tiles (the fire at the first such enemy of
\* enemy_ships), and otherwise returns a move; no ship fires while its firing
\* cooldown is above 0.
C14_SameFireFirstCheck ==
    HomeReportedFirst =>
        \A k \in Positions :
            LET ship == Roster[k]
                shot == FirstShot(obs.enemy_ships, ship)
            IN  ~EmergencyOverride(obs, ship, WrapperPlanet(ship)) =>
                    /\ IsFire(Actions[k]) <=>
                           (ship.firing_cooldown = 0 /\ shot # <<>>)
                    /\ IsFire(Actions[k]) => Actions[k] = shot
                    /\ ~IsFire(Actions[k]) => IsMove(Actions[k])

====
